---- MODULE Spec2Model ----
(***************************************************************************)
(* Model of src/log-analyzer-project/logAnalyzer.ts: parseLogEntries (the  *)
(* line parser) and analyzeLogPatterns (sort, then one forward scan per    *)
(* anchor).  Text is modelled as sequences of one-character strings, so    *)
(* the split, the trim, the regular expression and the date conversion are *)
(* computed on characters.  A JavaScript number is a record [nan, v]; a    *)
(* Date is modelled by its time value getTime().                           *)
(***************************************************************************)
EXTENDS Integers, Sequences, FiniteSets, TLC

VARIABLES
    op,                 \* the exported function that was called
    logContent,         \* argument: the log text
    timeWindowMs,       \* argument
    minSequenceLength,  \* argument
    pc,                 \* position in the called function
    logEntries,         \* analyzeLogPatterns: const logEntries (line 14)
    patterns,           \* analyzeLogPatterns: const patterns (line 19)
    i,                  \* outer loop index (line 22), 0-based as in the code
    j,                  \* inner loop index (line 26), 0-based as in the code
    currentSequence,    \* line 23
    startTime,          \* line 24
    result,             \* the returned value, once pc = "done"
    earlier,            \* the calls that returned before the current one
    token,              \* APITestClient: this.token (null or a token)
    method,             \* makeRequest: argument
    attempt,            \* makeRequest: loop variable (line 78)
    rpc,                \* makeRequest: position in the method
    sent,               \* the request configs handed to client.request
    settled,            \* how each of those requests settled
    timeouts,           \* the delays handed to timersPromises.setTimeout
    outcome             \* what makeRequest ended with

\* The variables of a call of one of the log analyzer's functions.
analyzerVars ==
    <<op, logContent, timeWindowMs, minSequenceLength, pc, logEntries,
      patterns, i, j, currentSequence, startTime, result>>

\* The variables of a call of APITestClient.makeRequest.
requestVars ==
    <<token, method, attempt, rpc, sent, settled, timeouts, outcome>>

vars == <<analyzerVars, earlier, requestVars>>

----------------------------------------------------------------------------
(* Bounds and input sets *)

\* Largest number of lines in a log text.
MaxLines == 3

\* The timeWindowMs arguments tried: negative, zero and positive.
TimeWindows == {-1, 0, 1, 2}

\* The minSequenceLength arguments tried: invalid (<= 0) and valid ones.
MinSeqLengths == {-1, 0, 1, 2, 3}

----------------------------------------------------------------------------
(* JavaScript numbers: an integer or NaN *)

NaN == [nan |-> TRUE, v |-> 0]

Num(n) == [nan |-> FALSE, v |-> n]

\* A bug NumSub could have: the difference taken in whole seconds.
NumSubInSeconds(a, b) ==
    IF a.nan \/ b.nan THEN NaN ELSE Num((a.v - b.v) \div 1000)

\* a - b on numbers: NaN if either operand is NaN.
NumSub(a, b) == IF a.nan \/ b.nan THEN NaN ELSE Num(a.v - b.v)

\* A bug NumLeq could have: it accepts a value one past the bound.
NumLeqOffByOne(a, n) == ~a.nan /\ a.v <= n + 1

\* Another: the bound taken as its absolute value.
NumLeqAbs(a, n) == ~a.nan /\ a.v <= (IF n < 0 THEN -n ELSE n)

\* a <= n for a number a and an integer n: false when a is NaN.
NumLeq(a, n) == ~a.nan /\ a.v <= n

----------------------------------------------------------------------------
(* Characters *)

Digits == {"0", "1", "2", "3", "4", "5", "6", "7", "8", "9"}

\* The characters \s matches, among those the model's texts use.
WhiteSpace == {" ", "\t"}

IsDigit(c) == c \in Digits

IsSpace(c) == c \in WhiteSpace

DigitVal(c) ==
    CASE c = "0" -> 0 [] c = "1" -> 1 [] c = "2" -> 2 [] c = "3" -> 3
      [] c = "4" -> 4 [] c = "5" -> 5 [] c = "6" -> 6 [] c = "7" -> 7
      [] c = "8" -> 8 [] c = "9" -> 9

\* The decimal value of the digits s[a..b].
RECURSIVE DecVal(_, _, _)
DecVal(s, a, b) ==
    IF b < a THEN 0 ELSE DecVal(s, a, b - 1) * 10 + DigitVal(s[b])

----------------------------------------------------------------------------
(* logContent.split('\n').filter(line => line.trim() !== '')  (line 57) *)

\* The index of the first "\n" of s at or after position a, or Len(s) + 1.
RECURSIVE NextNewline(_, _)
NextNewline(s, a) ==
    IF a > Len(s) \/ s[a] = "\n" THEN a ELSE NextNewline(s, a + 1)

\* String.prototype.split('\n'): the pieces between the separators; a text
\* with k separators has k + 1 pieces, empty ones included.
RECURSIVE SplitFrom(_, _)
SplitFrom(s, a) ==
    LET n == NextNewline(s, a)
    IN  IF n > Len(s)
        THEN <<SubSeq(s, a, Len(s))>>
        ELSE <<SubSeq(s, a, n - 1)>> \o SplitFrom(s, n + 1)

Split(s) == SplitFrom(s, 1)

\* line.trim() !== '': the line holds a character that is not white space.
NonBlank(line) == \E k \in 1..Len(line) : ~IsSpace(line[k])

RECURSIVE Filter(_)
Filter(ls) ==
    IF ls = <<>> THEN <<>>
    ELSE IF NonBlank(Head(ls)) THEN <<Head(ls)>> \o Filter(Tail(ls))
         ELSE Filter(Tail(ls))

Lines(content) == Filter(Split(content))

----------------------------------------------------------------------------
\* logRegex (line 63): group 1 is the timestamp, 4-2-2 digits, T, 2:2:2
\* digits, an unescaped dot, 3 digits, Z; then white space, group 2 (a run
\* of characters that are not white space), and optionally white space and
\* group 3 (the rest of the line); anchored at both ends.

\* The first capture group, one pattern element per character: "d" is \d,
\* "any" is the unescaped . of the source (any character but a line
\* terminator), every other element is a literal character.
TimestampPattern ==
    <<"d", "d", "d", "d", "-", "d", "d", "-", "d", "d", "T",
      "d", "d", ":", "d", "d", ":", "d", "d", "any", "d", "d", "d", "Z">>

\* One character against one pattern element.
MatchesElement(c, e) ==
    CASE e = "d"   -> IsDigit(c)
      [] e = "any" -> c # "\n"
      [] OTHER     -> c = e

\* The first Len(TimestampPattern) characters of the line match group 1.
MatchesTimestamp(line) ==
    /\ Len(line) >= Len(TimestampPattern)
    /\ \A k \in 1..Len(TimestampPattern) :
          MatchesElement(line[k], TimestampPattern[k])

\* The first position at or after a whose character is not white space
\* (the end of the greedy \s+), or Len(s) + 1.
RECURSIVE SkipSpace(_, _)
SkipSpace(s, a) ==
    IF a > Len(s) \/ ~IsSpace(s[a]) THEN a ELSE SkipSpace(s, a + 1)

\* The first position at or after a whose character is white space (the
\* end of the greedy \S+), or Len(s) + 1.
RECURSIVE SkipNonSpace(_, _)
SkipNonSpace(s, a) ==
    IF a > Len(s) \/ IsSpace(s[a]) THEN a ELSE SkipNonSpace(s, a + 1)

\* line.match(logRegex): [ok] and, on a match, the capture groups.  Group 3
\* is undefined (hasDetails = FALSE) when the optional group did not take
\* part in the match; it takes part whenever white space follows the event
\* token, and then holds the rest of the line after that white space.
Match(line) ==
    LET n  == Len(TimestampPattern)
        e1 == SkipSpace(line, n + 1)      \* start of the event token
        e2 == SkipNonSpace(line, e1)      \* one past the event token
        d1 == SkipSpace(line, e2)         \* start of the details
        no == [ok |-> FALSE, timestampStr |-> <<>>, event |-> <<>>,
               hasDetails |-> FALSE, details |-> <<>>]
    IN  IF ~MatchesTimestamp(line) THEN no
        ELSE IF e1 = n + 1 \/ e2 = e1 THEN no
        ELSE [ok |-> TRUE,
              timestampStr |-> SubSeq(line, 1, n),
              event |-> SubSeq(line, e1, e2 - 1),
              hasDetails |-> e2 <= Len(line),
              details |-> SubSeq(line, d1, Len(line))]

----------------------------------------------------------------------------
(* new Date(timestampStr) (line 70), as its time value *)

\* Days from 1970-01-01 to the civil date y-m-d (proleptic Gregorian).
DaysFromCivil(y, m, d) ==
    LET yy  == IF m <= 2 THEN y - 1 ELSE y
        era == yy \div 400
        yoe == yy - era * 400
        mp  == IF m > 2 THEN m - 3 ELSE m + 9
        doy == (153 * mp + 2) \div 5 + d - 1
        doe == yoe * 365 + yoe \div 4 - yoe \div 100 + doy
    IN  era * 146097 + doe - 719468

\* The model counts milliseconds from 2023-04-15T00:00:00.000Z instead of
\* 1970-01-01: the code only ever subtracts two time values (lines 17 and
\* 27), and the model's integers are 32 bits wide.
EpochDays == DaysFromCivil(2023, 4, 15)

\* The time value of new Date(s) for a string s that matched group 1.
\* A string in the ECMAScript date-time format with fields in range gives
\* its time value; one with a field out of range gives NaN (Invalid Date).
\* A string that is not in that format (another character where the format
\* has ".") is left to the engine; Node's V8 gives NaN for it, because once
\* it has read the "T" it accepts nothing but the format.
DateParse(s) ==
    LET y  == DecVal(s, 1, 4)
        mo == DecVal(s, 6, 7)
        d  == DecVal(s, 9, 10)
        h  == DecVal(s, 12, 13)
        mi == DecVal(s, 15, 16)
        se == DecVal(s, 18, 19)
        ms == DecVal(s, 21, 23)
    IN  IF s[20] # "." THEN NaN
        ELSE IF \/ mo < 1 \/ mo > 12 \/ d < 1 \/ d > 31
                \/ h > 24 \/ mi > 59 \/ se > 59
                \/ (h = 24 /\ (mi # 0 \/ se # 0 \/ ms # 0))
             THEN NaN
        ELSE Num((DaysFromCivil(y, mo, d) - EpochDays) * 86400000
                 + ((h * 60 + mi) * 60 + se) * 1000 + ms)

----------------------------------------------------------------------------
(* parseLogEntries (lines 56-77) *)

\* Lines 68-72: the entry pushed for a match m.
EntryOf(m) ==
    [timestamp |-> DateParse(m.timestampStr),
     event |-> IF m.hasDetails /\ m.details # <<>>
               THEN m.event \o <<" ">> \o m.details
               ELSE m.event]

\* Lines 65-74: the loop over the lines.
RECURSIVE EntriesOf(_)
EntriesOf(ls) ==
    IF ls = <<>> THEN <<>>
    ELSE LET m == Match(Head(ls))
         IN  IF m.ok THEN <<EntryOf(m)>> \o EntriesOf(Tail(ls))
             ELSE EntriesOf(Tail(ls))

parseLogEntries(content) == EntriesOf(Lines(content))

----------------------------------------------------------------------------
(* logEntries.sort((a, b) => a.timestamp.getTime() - b.timestamp.getTime()) *)
(* (line 17).  Array.prototype.sort as Node's V8 runs it on an array of    *)
(* fewer than 64 elements: find the run the array starts with, reverse it  *)
(* if it is strictly descending, then insert each later element by binary  *)
(* search.  The engine reads a comparator result of NaN as 0.              *)

\* The comparator of line 17, with NaN read as 0.
Compare(a, b) ==
    LET r == NumSub(a.timestamp, b.timestamp) IN IF r.nan THEN 0 ELSE r.v

RECURSIVE Reverse(_)
Reverse(s) == IF s = <<>> THEN <<>> ELSE Reverse(Tail(s)) \o <<Head(s)>>

\* The end of the run that starts at position 1 and has reached k.
RECURSIVE RunEndFrom(_, _, _)
RunEndFrom(s, k, descending) ==
    IF k >= Len(s) THEN k
    ELSE LET order == Compare(s[k + 1], s[k])
         IN  IF (descending /\ order >= 0) \/ (~descending /\ order < 0)
             THEN k
             ELSE RunEndFrom(s, k + 1, descending)

\* Binary search of the insertion point of pivot in s[left..right-1].
RECURSIVE InsertionPoint(_, _, _, _)
InsertionPoint(s, pivot, left, right) ==
    IF left >= right THEN left
    ELSE LET mid == left + (right - left) \div 2
         IN  IF Compare(pivot, s[mid]) < 0
             THEN InsertionPoint(s, pivot, left, mid)
             ELSE InsertionPoint(s, pivot, mid + 1, right)

\* Insert the elements s[start..Len(s)] one by one into the sorted prefix.
RECURSIVE BinaryInsertionSort(_, _)
BinaryInsertionSort(s, start) ==
    IF start > Len(s) THEN s
    ELSE LET pivot == s[start]
             p     == InsertionPoint(s, pivot, 1, start)
             t     == SubSeq(s, 1, p - 1) \o <<pivot>>
                      \o SubSeq(s, p, start - 1)
                      \o SubSeq(s, start + 1, Len(s))
         IN  BinaryInsertionSort(t, start + 1)

Sort(s) ==
    IF Len(s) < 2 THEN s
    ELSE LET descending == Compare(s[2], s[1]) < 0
             k          == RunEndFrom(s, 2, descending)
             t          == IF descending
                           THEN Reverse(SubSeq(s, 1, k))
                                \o SubSeq(s, k + 1, Len(s))
                           ELSE s
         IN  BinaryInsertionSort(t, k + 1)

----------------------------------------------------------------------------
(* The texts the functions are called with *)

\* "2023-04-15T14:32:15", the part of a timestamp before the milliseconds.
StampPrefix ==
    <<"2", "0", "2", "3", "-", "0", "4", "-", "1", "5", "T",
      "1", "4", ":", "3", "2", ":", "1", "5">>

\* Well-formed lines: milliseconds 000, 001 and 003, and a second line at
\* 000; LineB carries details.
LineA == StampPrefix \o <<".", "0", "0", "0", "Z", " ", "A">>
LineB == StampPrefix \o <<".", "0", "0", "1", "Z", " ", "B", " ", "x">>
LineC == StampPrefix \o <<".", "0", "0", "3", "Z", "\t", "C">>
LineD == StampPrefix \o <<".", "0", "0", "0", "Z", " ", "D">>

\* Another character where the format has the ".".
LineNoDot == StampPrefix \o <<"x", "0", "0", "2", "Z", " ", "E">>

\* Month 13: every character is of the right class, the date is not one.
LineMonth13 ==
    <<"2", "0", "2", "3", "-", "1", "3", "-", "1", "5", "T",
      "1", "4", ":", "3", "2", ":", "1", "5", ".", "0", "0", "2", "Z",
      " ", "F">>

\* Deviations from the timestamp format: no milliseconds, an offset instead
\* of Z, a character after the Z; and a line with no timestamp at all, and
\* one with a timestamp and no event token.
LineNoMillis == StampPrefix \o <<"Z", " ", "G">>
LineOffset   == StampPrefix \o
                <<".", "0", "0", "2", "+", "0", "1", ":", "0", "0", " ", "H">>
LineTrailing == StampPrefix \o <<".", "0", "0", "2", "Z", "x", " ", "I">>
LineGarbage  == <<"n", "o", " ", "F", "O", "O">>
LineNoEvent  == StampPrefix \o <<".", "0", "0", "2", "Z", " ">>

\* Blank and white-space-only lines.
LineEmpty == <<>>
LineBlank == <<" ", "\t">>

\* The lines analyzeLogPatterns is called with, and the larger set
\* parseLogEntries is called with.
AnalyzeLines == {LineA, LineB, LineC, LineD, LineMonth13, LineBlank}

ParseLines ==
    AnalyzeLines \cup {LineNoDot, LineNoMillis, LineOffset, LineTrailing,
                       LineGarbage, LineNoEvent, LineEmpty}

\* lines.join('\n')
RECURSIVE Join(_)
Join(ls) ==
    IF ls = <<>> THEN <<>>
    ELSE IF Len(ls) = 1 THEN Head(ls)
    ELSE Head(ls) \o <<"\n">> \o Join(Tail(ls))

\* The sequences of at most MaxLines elements of S.
SeqsUpTo(S) == UNION {[1..n -> S] : n \in 0..MaxLines}

AnalyzeContents == {Join(ls) : ls \in SeqsUpTo(AnalyzeLines)}

ParseContents == {Join(ls) : ls \in SeqsUpTo(ParseLines)}

\* The six lines of sampleLog (the log analyzer test, lines 4-9).
SampleLine1 ==
    <<"2", "0", "2", "3", "-", "0", "4", "-", "1", "5", "T", "1", "4", ":",
      "3", "2", ":", "1", "5", ".", "1", "2", "3", "Z", " ", "L", "O", "G",
      "I", "N", " ", "U", "s", "e", "r", " ", "l", "o", "g", "g", "e", "d",
      " ", "i", "n">>

SampleLine2 ==
    <<"2", "0", "2", "3", "-", "0", "4", "-", "1", "5", "T", "1", "4", ":",
      "3", "2", ":", "1", "7", ".", "4", "5", "6", "Z", " ", "N", "A", "V",
      "I", "G", "A", "T", "E", " ", "U", "s", "e", "r", " ", "n", "a", "v",
      "i", "g", "a", "t", "e", "d", " ", "t", "o", " ", "d", "a", "s", "h",
      "b", "o", "a", "r", "d">>

SampleLine3 ==
    <<"2", "0", "2", "3", "-", "0", "4", "-", "1", "5", "T", "1", "4", ":",
      "3", "2", ":", "1", "9", ".", "7", "8", "9", "Z", " ", "C", "L", "I",
      "C", "K", " ", "U", "s", "e", "r", " ", "c", "l", "i", "c", "k", "e",
      "d", " ", "o", "n", " ", "s", "e", "t", "t", "i", "n", "g", "s">>

SampleLine4 ==
    <<"2", "0", "2", "3", "-", "0", "4", "-", "1", "5", "T", "1", "4", ":",
      "3", "2", ":", "4", "5", ".", "1", "2", "3", "Z", " ", "L", "O", "G",
      "O", "U", "T", " ", "U", "s", "e", "r", " ", "l", "o", "g", "g", "e",
      "d", " ", "o", "u", "t">>

SampleLine5 ==
    <<"2", "0", "2", "3", "-", "0", "4", "-", "1", "5", "T", "1", "4", ":",
      "3", "5", ":", "1", "5", ".", "1", "2", "3", "Z", " ", "L", "O", "G",
      "I", "N", " ", "A", "n", "o", "t", "h", "e", "r", " ", "u", "s", "e",
      "r", " ", "l", "o", "g", "g", "e", "d", " ", "i", "n">>

SampleLine6 ==
    <<"2", "0", "2", "3", "-", "0", "4", "-", "1", "5", "T", "1", "4", ":",
      "3", "5", ":", "1", "8", ".", "4", "5", "6", "Z", " ", "E", "R", "R",
      "O", "R", " ", "F", "a", "i", "l", "e", "d", " ", "t", "o", " ", "l",
      "o", "a", "d", " ", "d", "a", "s", "h", "b", "o", "a", "r", "d">>

SampleLog ==
    Join(<<SampleLine1, SampleLine2, SampleLine3, SampleLine4, SampleLine5,
           SampleLine6>>)

\* The arguments the tests call analyzeLogPatterns(sampleLog, ...) with.
SampleWindows == {10000}

SampleMinSeqLengths == {2, 3}

----------------------------------------------------------------------------
(* The two exported functions as state machines *)

\* A bug Returned could have: an empty result raised as an error.
ReturnedThrowsOnEmpty(v) == [threw |-> v = <<>>, value |-> v]

\* What a call hands back: a value, never an exception (neither function
\* holds a throw statement, and every logEntries[...] read is in range).
Returned(v) == [threw |-> FALSE, value |-> v]

NoResult == [threw |-> FALSE, value |-> <<>>]

\* A call of parseLogEntries(logContent), or of
\* analyzeLogPatterns(logContent, timeWindowMs, minSequenceLength); the
\* locals are not yet assigned.
AnalyzerInit ==
    /\ \/ /\ op = "parseLogEntries"
          /\ logContent \in ParseContents
          /\ timeWindowMs = 0
          /\ minSequenceLength = 2
       \/ /\ op = "analyzeLogPatterns"
          /\ logContent \in AnalyzeContents
          /\ timeWindowMs \in TimeWindows
          /\ minSequenceLength \in MinSeqLengths
       \/ /\ op = "analyzeLogPatterns"
          /\ logContent = SampleLog
          /\ timeWindowMs \in SampleWindows
          /\ minSequenceLength \in SampleMinSeqLengths
    /\ pc = "parse"
    /\ logEntries = <<>>
    /\ patterns = <<>>
    /\ i = 0
    /\ j = 0
    /\ currentSequence = <<>>
    /\ startTime = NaN
    /\ result = NoResult

\* No makeRequest call is under way.
RequestIdle ==
    /\ token = "null"
    /\ method = "GET"
    /\ attempt = 0
    /\ rpc = "idle"
    /\ sent = <<>>
    /\ settled = <<>>
    /\ timeouts = <<>>
    /\ outcome = [kind |-> "none"]

\* One call of one of the log analyzer's functions, with nothing before it.
Init ==
    /\ AnalyzerInit
    /\ earlier = {}
    /\ RequestIdle

\* parseLogEntries called on its own (lines 56-77): it returns the entries.
ParseOnly ==
    /\ op = "parseLogEntries"
    /\ pc = "parse"
    /\ result' = Returned(parseLogEntries(logContent))
    /\ pc' = "done"
    /\ UNCHANGED <<op, logContent, timeWindowMs, minSequenceLength,
                   logEntries, patterns, i, j, currentSequence, startTime>>
    /\ UNCHANGED <<earlier, requestVars>>

\* Line 14: const logEntries = parseLogEntries(logContent).
AnalyzeParse ==
    /\ op = "analyzeLogPatterns"
    /\ pc = "parse"
    /\ logEntries' = parseLogEntries(logContent)
    /\ pc' = "sort"
    /\ UNCHANGED <<op, logContent, timeWindowMs, minSequenceLength,
                   patterns, i, j, currentSequence, startTime, result>>
    /\ UNCHANGED <<earlier, requestVars>>

\* A bug AnalyzeSort could have: patterns is an array that outlives the
\* call (declared outside the function) and is not emptied.
AnalyzeSortKeepsPatterns ==
    /\ pc = "sort"
    /\ logEntries' = Sort(logEntries)
    /\ i' = 0
    /\ pc' = "outer"
    /\ UNCHANGED <<op, logContent, timeWindowMs, minSequenceLength, patterns,
                   j, currentSequence, startTime, result>>
    /\ UNCHANGED <<earlier, requestVars>>

\* Lines 17-22: the sort, patterns = [], i = 0.
AnalyzeSort ==
    /\ pc = "sort"
    /\ logEntries' = Sort(logEntries)
    /\ patterns' = <<>>
    /\ i' = 0
    /\ pc' = "outer"
    /\ UNCHANGED <<op, logContent, timeWindowMs, minSequenceLength,
                   j, currentSequence, startTime, result>>
    /\ UNCHANGED <<earlier, requestVars>>

\* Lines 22-26: i < logEntries.length; the run starts as [logEntries[i]].
OuterStep ==
    /\ pc = "outer"
    /\ i < Len(logEntries)
    /\ currentSequence' = <<logEntries[i + 1]>>
    /\ startTime' = logEntries[i + 1].timestamp
    /\ j' = i + 1
    /\ pc' = "inner"
    /\ UNCHANGED <<op, logContent, timeWindowMs, minSequenceLength,
                   logEntries, patterns, i, result>>
    /\ UNCHANGED <<earlier, requestVars>>

\* Line 27: timeDiff of logEntries[j].
TimeDiff == NumSub(logEntries[j + 1].timestamp, startTime)

\* Lines 26-31: timeDiff <= timeWindowMs, the entry joins the run.
InnerPush ==
    /\ pc = "inner"
    /\ j < Len(logEntries)
    /\ NumLeq(TimeDiff, timeWindowMs)
    /\ currentSequence' = Append(currentSequence, logEntries[j + 1])
    /\ j' = j + 1
    /\ UNCHANGED <<op, logContent, timeWindowMs, minSequenceLength, pc,
                   logEntries, patterns, i, startTime, result>>
    /\ UNCHANGED <<earlier, requestVars>>

\* Lines 32-35: the window is exceeded, break.
InnerBreak ==
    /\ pc = "inner"
    /\ j < Len(logEntries)
    /\ ~NumLeq(TimeDiff, timeWindowMs)
    /\ pc' = "emit"
    /\ UNCHANGED <<op, logContent, timeWindowMs, minSequenceLength,
                   logEntries, patterns, i, j, currentSequence, startTime,
                   result>>
    /\ UNCHANGED <<earlier, requestVars>>

\* Line 26: j reached logEntries.length.
InnerEnd ==
    /\ pc = "inner"
    /\ j >= Len(logEntries)
    /\ pc' = "emit"
    /\ UNCHANGED <<op, logContent, timeWindowMs, minSequenceLength,
                   logEntries, patterns, i, j, currentSequence, startTime,
                   result>>
    /\ UNCHANGED <<earlier, requestVars>>

\* entry => entry.event over a run (line 41).
RECURSIVE EventsOf(_)
EventsOf(s) ==
    IF s = <<>> THEN <<>> ELSE <<Head(s).event>> \o EventsOf(Tail(s))

\* Lines 40-44: the pattern pushed for a run.
PatternOf(run) ==
    [events |-> EventsOf(run),
     startTime |-> run[1].timestamp,
     endTime |-> run[Len(run)].timestamp]

\* A bug MeetsMinimum could have: > where the code has >=.
MeetsMinimumStrict(run) == Len(run) > minSequenceLength

\* Line 39: currentSequence.length >= minSequenceLength.
MeetsMinimum(run) == Len(run) >= minSequenceLength

\* Lines 39-45, then i++: the run is long enough and is pushed.
Emit ==
    /\ pc = "emit"
    /\ MeetsMinimum(currentSequence)
    /\ patterns' = Append(patterns, PatternOf(currentSequence))
    /\ i' = i + 1
    /\ pc' = "outer"
    /\ UNCHANGED <<op, logContent, timeWindowMs, minSequenceLength,
                   logEntries, j, currentSequence, startTime, result>>
    /\ UNCHANGED <<earlier, requestVars>>

\* Line 39 false, then i++: the run is too short, nothing is pushed.
Skip ==
    /\ pc = "emit"
    /\ ~MeetsMinimum(currentSequence)
    /\ i' = i + 1
    /\ pc' = "outer"
    /\ UNCHANGED <<op, logContent, timeWindowMs, minSequenceLength,
                   logEntries, patterns, j, currentSequence, startTime,
                   result>>
    /\ UNCHANGED <<earlier, requestVars>>

\* Lines 22 and 48: i reached logEntries.length, return patterns.
Return ==
    /\ pc = "outer"
    /\ i >= Len(logEntries)
    /\ result' = Returned(patterns)
    /\ pc' = "done"
    /\ UNCHANGED <<op, logContent, timeWindowMs, minSequenceLength,
                   logEntries, patterns, i, j, currentSequence, startTime>>
    /\ UNCHANGED <<earlier, requestVars>>

Next ==
    \/ ParseOnly
    \/ AnalyzeParse
    \/ AnalyzeSort
    \/ OuterStep
    \/ InnerPush
    \/ InnerBreak
    \/ InnerEnd
    \/ Emit
    \/ Skip
    \/ Return

Spec == Init /\ [][Next]_vars

----------------------------------------------------------------------------
(* Calls one after another.  Each call of the two functions has its own    *)
(* locals; the model has one slot per local, so a new call finds in it     *)
(* whatever the call before left there, and reads it only if the code      *)
(* reads a local before assigning it.                                      *)

\* The largest number of different earlier calls that are remembered.
MaxEarlierCalls == 2

\* The texts and arguments of the calls that follow one another.
CallContents ==
    {<<>>, Join(<<LineB, LineA>>), Join(<<LineA, LineMonth13, LineD>>)}

CallWindows == {0, 1}

CallMinSeqLengths == {1, 2}

\* The arguments of a call: those of parseLogEntries(logContent) or of
\* analyzeLogPatterns(logContent, timeWindowMs, minSequenceLength).
CallArguments(o, c, w, m) ==
    /\ c \in CallContents
    /\ \/ o = "parseLogEntries" /\ w = 0 /\ m = 2
       \/ o = "analyzeLogPatterns" /\ w \in CallWindows
                                   /\ m \in CallMinSeqLengths

\* The current call, once it has returned.
CallRecord ==
    [op |-> op, logContent |-> logContent, timeWindowMs |-> timeWindowMs,
     minSequenceLength |-> minSequenceLength, result |-> result]

InitCalls ==
    /\ CallArguments(op, logContent, timeWindowMs, minSequenceLength)
    /\ pc = "parse"
    /\ logEntries = <<>>
    /\ patterns = <<>>
    /\ i = 0
    /\ j = 0
    /\ currentSequence = <<>>
    /\ startTime = NaN
    /\ result = NoResult
    /\ earlier = {}
    /\ RequestIdle

\* The caller calls again after a call has returned (lines 8 and 56: the
\* functions take arguments only and are entered with fresh locals).
NewCall ==
    /\ pc = "done"
    /\ Cardinality(earlier \cup {CallRecord}) <= MaxEarlierCalls
    /\ earlier' = earlier \cup {CallRecord}
    /\ CallArguments(op', logContent', timeWindowMs', minSequenceLength')
    /\ pc' = "parse"
    /\ result' = NoResult
    /\ UNCHANGED <<logEntries, patterns, i, j, currentSequence, startTime>>
    /\ UNCHANGED requestVars

NextCalls == Next \/ NewCall

SpecCalls == InitCalls /\ [][NextCalls]_vars

----------------------------------------------------------------------------
(* APITestClient.makeRequest (src/log-analyzer-project/api.test.ts, lines  *)
(* 72-104): up to MAX_RETRIES requests, a wait after a 429 response or a   *)
(* failed request, each await a step of its own.                           *)

MAX_RETRIES == 3

RATE_LIMIT_WINDOW == 60

\* this.token, null before authenticate, and the methods asked for.
Tokens == {"null", "valid.token"}

Methods == {"GET", "POST"}

\* How the mocked client.request settles: a response of some status, or a
\* rejection with some error.
Statuses == {200, 404, 429, 500}

RequestErrors == {"ECONNRESET", "ETIMEDOUT"}

Response(status) == [kind |-> "response", status |-> status]

Failure(error) == [kind |-> "error", error |-> error]

\* Lines 73-76: the Authorization header is set when there is a token.
Headers ==
    IF token # "null" THEN {<<"Authorization", <<"Bearer ", token>>>>} ELSE {}

\* A bug IsLastAttempt could have: the bound of the loop instead of its
\* last index.
IsLastAttemptOffByOne(a) == a = MAX_RETRIES

\* Lines 88 and 98: attempt === MAX_RETRIES - 1.
IsLastAttempt(a) == a = MAX_RETRIES - 1

\* The log analyzer is not called.
AnalyzerIdle ==
    /\ op = "none"
    /\ logContent = <<>>
    /\ timeWindowMs = 0
    /\ minSequenceLength = 2
    /\ pc = "idle"
    /\ logEntries = <<>>
    /\ patterns = <<>>
    /\ i = 0
    /\ j = 0
    /\ currentSequence = <<>>
    /\ startTime = NaN
    /\ result = NoResult
    /\ earlier = {}

\* A call of makeRequest(method, endpoint), at the head of its loop.
InitRequest ==
    /\ AnalyzerIdle
    /\ token \in Tokens
    /\ method \in Methods
    /\ attempt = 0
    /\ rpc = "loop"
    /\ sent = <<>>
    /\ settled = <<>>
    /\ timeouts = <<>>
    /\ outcome = [kind |-> "none"]

\* Lines 78-85 and 103: while attempt < MAX_RETRIES the request is handed
\* to client.request; after the loop 'Max retries exceeded' is thrown.
SendRequest ==
    /\ rpc = "loop"
    /\ IF attempt < MAX_RETRIES
       THEN /\ sent' = Append(sent, [method |-> method, url |-> "users",
                                     headers |-> Headers])
            /\ rpc' = "awaiting"
            /\ UNCHANGED outcome
       ELSE /\ outcome' = Failure("Max retries exceeded")
            /\ rpc' = "thrown"
            /\ UNCHANGED sent
    /\ UNCHANGED <<token, method, attempt, settled, timeouts>>
    /\ UNCHANGED <<analyzerVars, earlier>>

\* Lines 80-96: a response that is not a 429 is returned.
ReturnResponse ==
    /\ rpc = "awaiting"
    /\ \E status \in Statuses \ {429} :
          /\ settled' = Append(settled, Response(status))
          /\ outcome' = Response(status)
    /\ rpc' = "returned"
    /\ UNCHANGED <<token, method, attempt, sent, timeouts>>
    /\ UNCHANGED <<analyzerVars, earlier>>

\* Lines 87-90: a 429 on the last attempt is returned.
ReturnRateLimited ==
    /\ rpc = "awaiting"
    /\ IsLastAttempt(attempt)
    /\ settled' = Append(settled, Response(429))
    /\ outcome' = Response(429)
    /\ rpc' = "returned"
    /\ UNCHANGED <<token, method, attempt, sent, timeouts>>
    /\ UNCHANGED <<analyzerVars, earlier>>

\* Lines 87-91: a 429 before the last attempt starts the rate-limit wait.
WaitRateLimit ==
    /\ rpc = "awaiting"
    /\ ~IsLastAttempt(attempt)
    /\ settled' = Append(settled, Response(429))
    /\ timeouts' = Append(timeouts, RATE_LIMIT_WINDOW * 1000)
    /\ rpc' = "waitingRateLimit"
    /\ UNCHANGED <<token, method, attempt, sent, outcome>>
    /\ UNCHANGED <<analyzerVars, earlier>>

\* Lines 97-100: a failed request on the last attempt is rethrown.
Rethrow ==
    /\ rpc = "awaiting"
    /\ IsLastAttempt(attempt)
    /\ \E error \in RequestErrors :
          /\ settled' = Append(settled, Failure(error))
          /\ outcome' = Failure(error)
    /\ rpc' = "thrown"
    /\ UNCHANGED <<token, method, attempt, sent, timeouts>>
    /\ UNCHANGED <<analyzerVars, earlier>>

\* Lines 97-101: a failed request before the last attempt starts the wait
\* of one second.
WaitAfterError ==
    /\ rpc = "awaiting"
    /\ ~IsLastAttempt(attempt)
    /\ \E error \in RequestErrors :
          settled' = Append(settled, Failure(error))
    /\ timeouts' = Append(timeouts, 1000)
    /\ rpc' = "waitingAfterError"
    /\ UNCHANGED <<token, method, attempt, sent, outcome>>
    /\ UNCHANGED <<analyzerVars, earlier>>

\* Lines 91-92 and 78: the rate-limit wait is over, continue, attempt++.
RetryAfterRateLimit ==
    /\ rpc = "waitingRateLimit"
    /\ attempt' = attempt + 1
    /\ rpc' = "loop"
    /\ UNCHANGED <<token, method, sent, settled, timeouts, outcome>>
    /\ UNCHANGED <<analyzerVars, earlier>>

\* Lines 101-102 and 78: the wait after an error is over, attempt++.
RetryAfterError ==
    /\ rpc = "waitingAfterError"
    /\ attempt' = attempt + 1
    /\ rpc' = "loop"
    /\ UNCHANGED <<token, method, sent, settled, timeouts, outcome>>
    /\ UNCHANGED <<analyzerVars, earlier>>

NextRequest ==
    \/ SendRequest
    \/ ReturnResponse
    \/ ReturnRateLimited
    \/ WaitRateLimit
    \/ Rethrow
    \/ WaitAfterError
    \/ RetryAfterRateLimit
    \/ RetryAfterError

\* The mocked client.request and timersPromises.setTimeout settle (lines
\* 6-8 and 115), and the continuation of a settled await is run: a
\* step that can be taken is taken.
SpecRequest == InitRequest /\ [][NextRequest]_vars /\ WF_vars(NextRequest)

----------------------------------------------------------------------------
(* Vocabulary of the properties *)

AnalyzeCalled == op = "analyzeLogPatterns"

ParseCalled == op = "parseLogEntries"

\* The call has returned.
Done == pc = "done"

\* endTime - startTime <= timeWindowMs, as JavaScript evaluates it: false
\* when either time is that of an Invalid Date.
WithinWindow(w) ==
    /\ ~w.startTime.nan
    /\ ~w.endTime.nan
    /\ w.endTime.v - w.startTime.v <= timeWindowMs

\* The patterns pushed so far, as a set of positions.
PatternIndices == 1..Len(patterns)

\* The timestamp of the record at position a of logEntries (positions are
\* counted from 1 here, from 0 in the code).
Ts(a) == logEntries[a].timestamp

\* timestamp[m] - timestamp[a] <= timeWindowMs, as JavaScript evaluates it.
OffsetWithin(a, m) ==
    /\ ~Ts(a).nan
    /\ ~Ts(m).nan
    /\ Ts(m).v - Ts(a).v <= timeWindowMs

\* timestamp[m] lies in [timestamp[a], timestamp[a] + timeWindowMs].
InInterval(a, m) ==
    /\ ~Ts(a).nan
    /\ ~Ts(m).nan
    /\ Ts(a).v <= Ts(m).v
    /\ Ts(m).v <= Ts(a).v + timeWindowMs

\* The largest k such that every m in a+1..k has its offset from the
\* anchor a within the window.
SliceEnd(a) ==
    CHOOSE k \in a..Len(logEntries) :
        /\ \A m \in (a + 1)..k : OffsetWithin(a, m)
        /\ k = Len(logEntries) \/ ~OffsetWithin(a, k + 1)

\* The window of the slice a..k: its events in slice order, the anchor's
\* timestamp, the timestamp of the record at k.
WindowOfSlice(a, k) ==
    [events |-> [m \in 1..(k - a + 1) |-> logEntries[a + m - 1].event],
     startTime |-> Ts(a),
     endTime |-> Ts(k)]

----------------------------------------------------------------------------
(* C1 *)

\* C1 as stated: for minSequenceLength >= 1 and any timeWindowMs, every
\* pattern window has endTime - startTime <= timeWindowMs and at least
\* minSequenceLength events.
C1_AsStated ==
    (AnalyzeCalled /\ minSequenceLength >= 1) =>
        \A p \in PatternIndices :
            /\ WithinWindow(patterns[p])
            /\ Len(patterns[p].events) >= minSequenceLength

\* C1 amended: every pattern window has at least minSequenceLength events;
\* a window of two or more events has endTime - startTime <= timeWindowMs;
\* a window of one event (emitted only when minSequenceLength <= 1) has
\* endTime equal to startTime, so it meets the bound exactly when
\* timeWindowMs >= 0 and its timestamp is a valid date.
C1_WindowBounds ==
    AnalyzeCalled =>
        \A p \in PatternIndices :
            LET w == patterns[p]
            IN  /\ Len(w.events) >= minSequenceLength
                /\ Len(w.events) >= 1
                /\ Len(w.events) >= 2 => WithinWindow(w)
                /\ Len(w.events) = 1 =>
                      /\ w.endTime = w.startTime
                      /\ WithinWindow(w) <=>
                            (timeWindowMs >= 0 /\ ~w.startTime.nan)

\* C1's case: a returned list holding a window of three events that spans
\* exactly timeWindowMs, under minSequenceLength = 3.
C1_Witness ==
    /\ AnalyzeCalled /\ Done /\ minSequenceLength = 3
    /\ \E p \in 1..Len(result.value) :
          LET w == result.value[p]
          IN  /\ Len(w.events) = 3
              /\ ~w.startTime.nan
              /\ w.endTime.v - w.startTime.v = timeWindowMs

----------------------------------------------------------------------------
(* C2 *)

\* C2: when the scan of anchor a ends, the run is the slice a..SliceEnd(a);
\* every later record whose timestamp lies in [timestamp[a], timestamp[a] +
\* timeWindowMs] is in it and no record of it is further than timeWindowMs
\* from the anchor; and the window pushed for the run has the slice's
\* events, the anchor's timestamp and the timestamp of the slice's last
\* record.
C2_RunIsWindowSlice ==
    /\ pc = "emit" =>
          LET a == i + 1
              k == SliceEnd(a)
          IN  /\ currentSequence = SubSeq(logEntries, a, k)
              /\ \A m \in (a + 1)..Len(logEntries) : InInterval(a, m) => m <= k
              /\ \A m \in (a + 1)..k : OffsetWithin(a, m)
    /\ (pc = "outer" /\ i >= 1 /\ Len(currentSequence) >= minSequenceLength) =>
          /\ patterns # <<>>
          /\ patterns[Len(patterns)] = WindowOfSlice(i, SliceEnd(i))

----------------------------------------------------------------------------
(* C3 *)

\* The windows of the anchors 1..n whose slice has at least
\* minSequenceLength records, in anchor order.
RECURSIVE ExpectedPatterns(_)
ExpectedPatterns(n) ==
    IF n = 0 THEN <<>>
    ELSE LET k == SliceEnd(n)
         IN  IF k - n + 1 >= minSequenceLength
             THEN Append(ExpectedPatterns(n - 1), WindowOfSlice(n, k))
             ELSE ExpectedPatterns(n - 1)

\* C3: after i anchors, patterns holds exactly one window for each of those
\* anchors whose run has at least minSequenceLength records and none for the
\* others, in anchor order, none merged or dropped; the loop index never
\* passes the number of records, and the call returns that list once every
\* record has been the anchor.
C3_OneWindowPerQualifyingAnchor ==
    (AnalyzeCalled /\ pc \in {"outer", "inner", "emit", "done"}) =>
        /\ i <= Len(logEntries)
        /\ patterns = ExpectedPatterns(i)
        /\ Done => (i = Len(logEntries) /\ result = Returned(patterns))

\* C3's case: a returned list with two windows that share an event, from
\* three records of which the last got no window.
C3_Witness ==
    /\ AnalyzeCalled /\ Done /\ minSequenceLength = 2
    /\ Len(logEntries) = 3
    /\ Len(result.value) = 2
    /\ Len(result.value[1].events) = 3
    /\ Len(result.value[2].events) = 2
    /\ result.value[2].events[1] = result.value[1].events[2]

----------------------------------------------------------------------------
(* C4 *)

\* C4: a call of analyzeLogPatterns with minSequenceLength <= 0 ends with
\* an error and hands back no result list.
C4_InvalidConfigurationFails ==
    (AnalyzeCalled /\ Done /\ minSequenceLength <= 0) => result.threw

----------------------------------------------------------------------------
(* C5 *)

\* timestamp[a] > timestamp[b], as JavaScript evaluates it.
TsGreater(a, b) == ~Ts(a).nan /\ ~Ts(b).nan /\ Ts(a).v > Ts(b).v

\* timestamp[a] = timestamp[b]: the same point in time.
TsEq(a, b) == ~Ts(a).nan /\ ~Ts(b).nan /\ Ts(a).v = Ts(b).v

\* The bijections of 1..n.
Bijections(n) ==
    {f \in [1..n -> 1..n] : \A a, b \in 1..n : a # b => f[a] # f[b]}

\* C5: from the sort on, logEntries is ordered by non-decreasing timestamp
\* (no record comes before one of a smaller timestamp) and is a permutation of the parsed records that keeps records of equal
\* timestamp in parse order.
C5_SortedStablePermutation ==
    (AnalyzeCalled /\ pc \notin {"parse", "sort"}) =>
        LET parsed == parseLogEntries(logContent)
            n      == Len(logEntries)
        IN  /\ \A a, b \in 1..n : a < b => ~TsGreater(a, b)
            /\ Len(parsed) = n
            /\ \E f \in Bijections(n) :
                  /\ \A a \in 1..n : logEntries[a] = parsed[f[a]]
                  /\ \A a, b \in 1..n :
                        (a < b /\ TsEq(a, b)) => f[a] < f[b]

----------------------------------------------------------------------------
(* The line format as the specification gives it, read off the text *)

\* The positions at which a line of logContent starts.
RECURSIVE LineStartsFrom(_)
LineStartsFrom(a) ==
    IF a > Len(logContent) + 1 THEN <<>>
    ELSE LET e == CHOOSE e \in (a - 1)..Len(logContent) :
                     /\ \A m \in a..e : logContent[m] # "\n"
                     /\ e = Len(logContent) \/ logContent[e + 1] = "\n"
         IN  <<SubSeq(logContent, a, e)>> \o LineStartsFrom(e + 2)

\* The lines of logContent, in order.
ContentLines == LineStartsFrom(1)

\* White-space-only or empty.
BlankLine(line) == \A k \in 1..Len(line) : line[k] \in WhiteSpace

DigitPositions ==
    {1, 2, 3, 4, 6, 7, 9, 10, 12, 13, 15, 16, 18, 19, 21, 22, 23}

\* The line's first 24 characters are exactly YYYY-MM-DDTHH:MM:SS.mmmZ.
StrictTimestamp(line) ==
    /\ Len(line) >= 24
    /\ \A k \in DigitPositions : line[k] \in Digits
    /\ line[5] = "-" /\ line[8] = "-" /\ line[11] = "T"
    /\ line[14] = ":" /\ line[17] = ":" /\ line[20] = "." /\ line[24] = "Z"

\* The line's timestamp token: its characters up to the first white space.
TimestampToken(line) ==
    LET ends == {k \in 0..Len(line) :
                    /\ \A m \in 1..k : line[m] \notin WhiteSpace
                    /\ k = Len(line) \/ line[k + 1] \in WhiteSpace}
    IN  SubSeq(line, 1, CHOOSE k \in ends : TRUE)

\* The first position after the timestamp that is not white space, or 0.
EventStart(line) ==
    LET c == {k \in 26..Len(line) :
                 /\ line[k] \notin WhiteSpace
                 /\ \A m \in 25..(k - 1) : line[m] \in WhiteSpace}
    IN  IF c = {} THEN 0 ELSE CHOOSE k \in c : TRUE

\* The line is of the format: timestamp, white space, event token, and
\* optionally white space and details.
WellFormed(line) == StrictTimestamp(line) /\ EventStart(line) # 0

\* The event string of a well-formed line: the event token, and the details
\* after a single space when there are any.
EventString(line) ==
    LET e1 == EventStart(line)
        e2 == CHOOSE k \in e1..Len(line) :
                  /\ \A m \in e1..k : line[m] \notin WhiteSpace
                  /\ k = Len(line) \/ line[k + 1] \in WhiteSpace
        ds == {k \in (e2 + 1)..Len(line) : line[k] \notin WhiteSpace}
        d1 == CHOOSE k \in ds : \A m \in ds : k <= m
    IN  IF ds = {} THEN SubSeq(line, e1, e2)
        ELSE SubSeq(line, e1, e2) \o <<" ">> \o SubSeq(line, d1, Len(line))

\* The records of the well-formed lines among ls, in order.
RECURSIVE RecordsOf(_)
RecordsOf(ls) ==
    IF ls = <<>> THEN <<>>
    ELSE IF ~BlankLine(Head(ls)) /\ WellFormed(Head(ls))
         THEN <<[timestamp |-> DateParse(SubSeq(Head(ls), 1, 24)),
                 event |-> EventString(Head(ls))]>> \o RecordsOf(Tail(ls))
         ELSE RecordsOf(Tail(ls))

----------------------------------------------------------------------------
(* C6 *)

\* C6: parseLogEntries raises nothing and returns exactly the records of
\* the non-blank lines that are of the format, in the order of the lines;
\* every other line contributes nothing.
C6_RecordsOfWellFormedLines ==
    (ParseCalled /\ Done) =>
        /\ ~result.threw
        /\ result.value = RecordsOf(ContentLines)

----------------------------------------------------------------------------
(* C7 *)

\* The lines among ls whose timestamp token is exactly of the form
\* YYYY-MM-DDTHH:MM:SS.mmmZ.
RECURSIVE StrictlyStamped(_)
StrictlyStamped(ls) ==
    IF ls = <<>> THEN 0
    ELSE (IF Len(TimestampToken(Head(ls))) = 24 /\ StrictTimestamp(Head(ls))
          THEN 1 ELSE 0) + StrictlyStamped(Tail(ls))

\* C7: a line gets a record only if its timestamp token is exactly of the
\* form YYYY-MM-DDTHH:MM:SS.mmmZ, so there are no more records than lines
\* with such a token.
C7_OnlyStrictTimestamps ==
    (ParseCalled /\ Done) =>
        Len(result.value) <= StrictlyStamped(ContentLines)

----------------------------------------------------------------------------
(* C8 *)

\* No two records of logEntries have the same timestamp.
NoSharedTimestamp ==
    \A a, b \in 1..Len(logEntries) : a # b => ~TsEq(a, b)

\* C8: with timeWindowMs = 0 the call raises nothing; every run of two or
\* more records, and so every window of two or more events, holds only
\* records whose timestamp is the anchor's; and when no two records share a
\* timestamp and minSequenceLength >= 2 the returned list is empty.
C8_ZeroWindow ==
    (AnalyzeCalled /\ timeWindowMs = 0) =>
        /\ ~result.threw
        /\ (pc \in {"inner", "emit"} /\ Len(currentSequence) >= 2) =>
              \A m \in 1..Len(currentSequence) :
                  /\ ~startTime.nan
                  /\ currentSequence[m].timestamp = startTime
        /\ \A p \in PatternIndices :
              Len(patterns[p].events) >= 2 =>
                  /\ ~patterns[p].startTime.nan
                  /\ patterns[p].endTime = patterns[p].startTime
        /\ (Done /\ minSequenceLength >= 2 /\ NoSharedTimestamp) =>
              result = Returned(<<>>)

\* C8's case: timeWindowMs = 0 and a returned window of the two records
\* that share a timestamp, next to a record with another timestamp.
C8_Witness ==
    /\ AnalyzeCalled /\ Done /\ timeWindowMs = 0 /\ minSequenceLength = 2
    /\ Len(logEntries) = 3
    /\ \E a, b \in 1..3 : ~Ts(a).nan /\ ~Ts(b).nan /\ Ts(a).v # Ts(b).v
    /\ Len(result.value) = 1
    /\ Len(result.value[1].events) = 2

----------------------------------------------------------------------------
(* C9 *)

\* C9: with timeWindowMs < 0 the call raises nothing, every anchor's run
\* has exactly one record, and for minSequenceLength >= 2 the returned list
\* is empty.
C9_NegativeWindow ==
    (AnalyzeCalled /\ timeWindowMs < 0) =>
        /\ ~result.threw
        /\ pc \in {"inner", "emit"} => Len(currentSequence) = 1
        /\ (pc = "inner" /\ j < Len(logEntries)) => ENABLED InnerBreak
        /\ (Done /\ minSequenceLength >= 2) => result = Returned(<<>>)

\* C9's case: timeWindowMs < 0, the scan of an anchor has ended and the
\* next record has the anchor's timestamp.
C9_Witness ==
    /\ AnalyzeCalled /\ timeWindowMs < 0 /\ pc = "emit"
    /\ i + 2 <= Len(logEntries)
    /\ TsEq(i + 1, i + 2)

----------------------------------------------------------------------------
(* C10 *)

\* The text is empty or made of blank and white-space-only lines.
OnlyBlankLines ==
    \A k \in 1..Len(logContent) : logContent[k] \in WhiteSpace \cup {"\n"}

\* C10: on such a text parseLogEntries returns the empty sequence and
\* analyzeLogPatterns parses no record and returns the empty list, whatever
\* timeWindowMs and minSequenceLength are, and neither raises.
C10_EmptyContent ==
    OnlyBlankLines =>
        /\ ~result.threw
        /\ logEntries = <<>>
        /\ patterns = <<>>
        /\ Done => result = Returned(<<>>)

\* C10's case: analyzeLogPatterns has returned on a text of two
\* white-space-only lines.
C10_Witness ==
    /\ AnalyzeCalled /\ Done /\ OnlyBlankLines
    /\ \E k \in 1..Len(logContent) : logContent[k] = "\n"
    /\ \E k \in 1..Len(logContent) : logContent[k] \in WhiteSpace

----------------------------------------------------------------------------
(* C11 *)

\* The event e is among the events of the window w.
HasEvent(w, e) == \E k \in 1..Len(w.events) : w.events[k] = e

\* The event string of a sample line: the line after its timestamp and the
\* space that follows it.
SampleEvent(line) == SubSeq(line, 26, Len(line))

\* C11: analyzeLogPatterns(sampleLog, 10000, 2) returns a non-empty list;
\* its first window is anchored at 14:32:15.123, holds the LOGIN and the
\* NAVIGATE event of the first two lines and does not hold the LOGOUT event
\* of 14:32:45.123.
C11_SampleLogFirstWindow ==
    (AnalyzeCalled /\ Done /\ logContent = SampleLog
        /\ timeWindowMs = 10000 /\ minSequenceLength = 2) =>
        /\ ~result.threw
        /\ result.value # <<>>
        /\ LET w == result.value[1]
           IN  /\ w.startTime = Num(((14 * 60 + 32) * 60 + 15) * 1000 + 123)
               /\ HasEvent(w, SampleEvent(SampleLine1))
               /\ HasEvent(w, SampleEvent(SampleLine2))
               /\ ~HasEvent(w, SampleEvent(SampleLine4))

\* C11's case: that call has returned, and its first window has the three
\* events of the first three lines.
C11_Witness ==
    /\ AnalyzeCalled /\ Done /\ logContent = SampleLog
    /\ timeWindowMs = 10000 /\ minSequenceLength = 2
    /\ Len(result.value) >= 1
    /\ Len(result.value[1].events) = 3

----------------------------------------------------------------------------
(* C12 *)

\* The call record e has the function and the arguments of the record f.
SameCall(e, f) ==
    /\ e.op = f.op
    /\ e.logContent = f.logContent
    /\ e.op = "analyzeLogPatterns" =>
          /\ e.timeWindowMs = f.timeWindowMs
          /\ e.minSequenceLength = f.minSequenceLength

\* C12: whatever calls came before, a call that has returned has the
\* result of every earlier call of the same function with the same
\* arguments, and so have any two earlier calls: the result depends on the
\* arguments alone.
C12_ResultDependsOnArgumentsOnly ==
    /\ Done => \A e \in earlier : SameCall(e, CallRecord) => e.result = result
    /\ \A e, f \in earlier : SameCall(e, f) => e.result = f.result

\* C12's case: analyzeLogPatterns has returned a non-empty list for
\* arguments it was called with before, and another call with another
\* non-empty result came before as well.
C12_Witness ==
    /\ AnalyzeCalled /\ Done /\ result.value # <<>>
    /\ \E e, f \in earlier :
          /\ SameCall(e, CallRecord)
          /\ ~SameCall(f, CallRecord)
          /\ f.result.value # <<>>
          /\ f.result # result

----------------------------------------------------------------------------
(* C13 *)

\* The number of records of the run of anchor a.
RunLength(a) == SliceEnd(a) - a + 1

\* Run ends are monotone: the run of every anchor is the slice up to its
\* SliceEnd, and a run of anchor a that reaches k > a is followed by a run of
\* anchor a + 1 that reaches at least k.
RunEndsMonotone ==
    /\ pc = "emit" =>
          currentSequence = SubSeq(logEntries, i + 1, SliceEnd(i + 1))
    /\ pc \in {"outer", "inner", "emit", "done"} =>
          \A a \in 1..(Len(logEntries) - 1) :
              SliceEnd(a) > a => SliceEnd(a + 1) >= SliceEnd(a)

\* Once anchor a + 1 has been handled (a + 1 anchors are done): if anchor a
\* got a window of L events and L - 1 >= minSequenceLength, the last two
\* patterns are the windows of a and a + 1, and the second has at least
\* L - 1 events, starting with all events of the first but its first one.
NextAnchorAlsoEmits ==
    (AnalyzeCalled /\ pc = "outer" /\ i >= 2) =>
        LET a == i - 1
            L == RunLength(a)
            n == Len(patterns)
        IN  (L >= minSequenceLength /\ L - 1 >= minSequenceLength) =>
                /\ n >= 2
                /\ patterns[n - 1] = WindowOfSlice(a, SliceEnd(a))
                /\ Len(patterns[n].events) >= L - 1
                /\ SubSeq(patterns[n].events, 1, L - 1)
                      = Tail(patterns[n - 1].events)

\* C13 as stated: run ends are monotone, and whenever a window of L events
\* is emitted for an anchor and L - 1 >= minSequenceLength, there is a next
\* anchor and a window is emitted for it too, with at least L - 1 events,
\* holding every event of the first window but its first one.
C13_AsStated ==
    /\ RunEndsMonotone
    /\ NextAnchorAlsoEmits
    /\ (AnalyzeCalled /\ pc = "outer" /\ i >= 1) =>
          ((RunLength(i) >= minSequenceLength
                /\ RunLength(i) - 1 >= minSequenceLength)
              => i < Len(logEntries))

\* C13 on the calls the contract allows (minSequenceLength >= 1): there
\* L - 1 >= minSequenceLength makes the run reach past its anchor, and the
\* claim holds.
C13_ForValidMinimum ==
    /\ RunEndsMonotone
    /\ NextAnchorAlsoEmits
    /\ (AnalyzeCalled /\ pc = "outer" /\ i >= 1 /\ minSequenceLength >= 1) =>
          ((RunLength(i) >= minSequenceLength
                /\ RunLength(i) - 1 >= minSequenceLength)
              => i < Len(logEntries))

----------------------------------------------------------------------------
(* C14 *)

\* makeRequest has ended.
RequestEnded == rpc \in {"returned", "thrown"}

\* What holds of a makeRequest call at every moment: never more than
\* MAX_RETRIES requests, 'Max retries exceeded' never thrown, and once it
\* has ended: between 1 and MAX_RETRIES requests; what is returned is the
\* last response and what is thrown is the last request error; every
\* request before the last got a 429 and was followed by one wait of
\* RATE_LIMIT_WINDOW * 1000 ms, or failed and was followed by one wait of
\* 1000 ms; a 429 is returned and an error rethrown on the last attempt
\* only.
RequestSafety ==
    /\ Len(sent) <= MAX_RETRIES
    /\ outcome # Failure("Max retries exceeded")
    /\ RequestEnded =>
          LET n == Len(sent)
          IN  /\ n >= 1
              /\ n = attempt + 1
              /\ Len(settled) = n
              /\ Len(timeouts) = n - 1
              /\ outcome = settled[n]
              /\ rpc = "returned" <=> settled[n].kind = "response"
              /\ rpc = "thrown" <=> settled[n].kind = "error"
              /\ (settled[n] = Response(429) \/ settled[n].kind = "error")
                    => n = MAX_RETRIES
              /\ \A k \in 1..(n - 1) :
                    /\ settled[k].kind = "response" =>
                          /\ settled[k].status = 429
                          /\ timeouts[k] = RATE_LIMIT_WINDOW * 1000
                    /\ settled[k].kind = "error" => timeouts[k] = 1000

\* C14: every call of makeRequest issues between 1 and MAX_RETRIES requests
\* and then ends, by returning a response or rethrowing the last request
\* error, with the waits and the retries as in RequestSafety; 'Max retries
\* exceeded' is never raised.
C14_MakeRequestRetries == []RequestSafety /\ <>RequestEnded

\* C14's case: the third request failed and its error was rethrown, after a
\* 429 and the rate-limit wait, then a failure and the wait of a second.
C14_Witness ==
    /\ rpc = "thrown"
    /\ Len(sent) = 3
    /\ settled[1] = Response(429)
    /\ settled[2].kind = "error"
    /\ timeouts = <<60000, 1000>>

====
